---- MODULE Spec2Model ----
(***************************************************************************)
(* http-honeylog: the per-request ingestion loop (readNewData), the field  *)
(* normaliser (cleanData) and the sampling decision (determineSampleRate)  *)
(* of src/main.go.                                                         *)
(*                                                                         *)
(* Three specifications share the definitions below:                       *)
(*   Spec        concurrent request handlers running readNewData           *)
(*   SpecClean   one cleanData call, one map entry per step (Go ranges a   *)
(*               map in an unspecified order)                              *)
(*   SpecSample  two successive determineSampleRate calls                  *)
(***************************************************************************)
EXTENDS Integers, Sequences, FiniteSets, TLC

VARIABLES
    samplingFields,  \* main.go:27  ordered sampling-key field names
    urlFields,       \* main.go:28  ordered URL field names
    sampler,         \* main.go:26  the shared sampler: per-key interval counters
    handler,         \* readNewData's locals, one record per request handler
    decodedKeys,     \* history: per sampling key, the lines json.Unmarshal accepted
    clean,           \* cleanData's map and its range loop (SpecClean)
    samp             \* the determineSampleRate calls made so far (SpecSample)

vars == <<samplingFields, urlFields, sampler, handler, decodedKeys, clean, samp>>

(***************************************************************************)
(* Bounds of the model.                                                    *)
(***************************************************************************)
NumHandlers == 2     \* concurrent requests
MaxLines == 2        \* lines in one request body
MaxFields == 2       \* fields in one record given to cleanData / determineSampleRate

(***************************************************************************)
(* Program constants.                                                      *)
(***************************************************************************)
MaxLineLength == 65536
\* main.go:23; the source's separator is a non-ASCII bullet, written here in ASCII
KeySeperatorChar == "|"

(***************************************************************************)
(* Dynamically typed JSON values (interface{} after json.Unmarshal).       *)
(* Every value is a record of the same shape so that values compare.       *)
(***************************************************************************)
Str(s) == [t |-> "str", s |-> s, n |-> 0, e |-> <<>>]
Num(n) == [t |-> "num", s |-> "", n |-> n, e |-> <<>>]
Bool(b) == [t |-> "bool", s |-> "", n |-> IF b THEN 1 ELSE 0, e |-> <<>>]
Null == [t |-> "null", s |-> "", n |-> 0, e |-> <<>>]
List(e) == [t |-> "list", s |-> "", n |-> 0, e |-> e]
Obj == [t |-> "obj", s |-> "", n |-> 0, e |-> <<>>]

\* a map with no entries
EmptyMap == [k \in {} |-> Null]

RECURSIVE JoinStrings(_, _)
\* strings.Join
JoinStrings(seq, sep) ==
    IF Len(seq) = 0 THEN ""
    ELSE IF Len(seq) = 1 THEN seq[1]
    ELSE seq[1] \o sep \o JoinStrings(Tail(seq), sep)

\* %v of a JSON number (a float64 holding a small natural)
NumStr(n) == <<"0", "1", "2", "3", "4", "5", "6", "7", "8", "9">>[n + 1]

RECURSIVE Sprint(_)
\* fmt.Sprintf("%v", v)
Sprint(v) ==
    CASE v.t = "str" -> v.s
      [] v.t = "num" -> NumStr(v.n)
      [] v.t = "bool" -> (IF v.n = 1 THEN "true" ELSE "false")
      [] v.t = "null" -> "<nil>"
      [] v.t = "list" -> "[" \o JoinStrings([i \in 1..Len(v.e) |-> Sprint(v.e[i])], " ") \o "]"
      [] OTHER -> "map[]"

\* main.go:159-166: a slice becomes the comma-joined %v of its elements
Flatten(v) ==
    IF v.t = "list"
    THEN Str(JoinStrings([i \in 1..Len(v.e) |-> Sprint(v.e[i])], ","))
    ELSE v

\* reflect.TypeOf(v).Kind(): TypeOf(nil) is a nil Type and the call dereferences it
KindPanics(v) == v.t = "null"

(***************************************************************************)
(* urlshaper.Parser{}.Parse with no patterns configured, on the strings    *)
(* the model uses: net/url rejects the invalid escape "%zz"; a string      *)
(* with no '?' is all path.                                                *)
(***************************************************************************)
Parse(s) ==
    CASE s = "/x/1?y=2" ->
            [ok |-> TRUE, Path |-> "/x/1", PathShape |-> "/x/1", PathFields |-> <<>>,
             Query |-> "y=2", QueryShape |-> "y=?",
             QueryFields |-> <<[name |-> "y", vals |-> <<"2">>]>>, URI |-> s]
      [] s = "%zz" ->
            [ok |-> FALSE, Path |-> "", PathShape |-> "", PathFields |-> <<>>,
             Query |-> "", QueryShape |-> "", QueryFields |-> <<>>, URI |-> ""]
      [] OTHER ->
            [ok |-> TRUE, Path |-> s, PathShape |-> s, PathFields |-> <<>>,
             Query |-> "", QueryShape |-> "", QueryFields |-> <<>>, URI |-> s]

RECURSIVE SetFields(_, _, _)
\* main.go:175-177 and 180-182: data[prefix+name] = strings.Join(vals, ",") for each entry
SetFields(data, prefix, fs) ==
    IF Len(fs) = 0 THEN data
    ELSE SetFields(((prefix \o fs[1].name) :> Str(JoinStrings(fs[1].vals, ","))) @@ data,
                   prefix, Tail(fs))

\* main.go:174-184: the assignments made after a successful parse
SetDerived(data, k, res) ==
    LET d1 == ((k \o ".path") :> Str(res.Path)) @@ data
        d2 == SetFields(d1, k \o ".pathFields.", res.PathFields)
        d3 == ((k \o ".pathShape") :> Str(res.PathShape)) @@ d2
        d4 == ((k \o ".query") :> Str(res.Query)) @@ d3
        d5 == SetFields(d4, k \o ".queryFields.", res.QueryFields)
        d6 == ((k \o ".queryShape") :> Str(res.QueryShape)) @@ d5
    IN  ((k \o ".uri") :> Str(res.URI)) @@ d6

\* a faulty variant of CheckedUrlFields: the loop without its break
CheckedUrlFieldsNoBreak(fields) == {fields[i] : i \in 1..Len(fields)}

\* main.go:170-188: the break at the end of the loop body leaves after the first field
CheckedUrlFields(fields) == IF Len(fields) = 0 THEN {} ELSE {fields[1]}

\* main.go:156-189: one iteration of the range loop, on entry k with its current value
VisitKey(data, k, fields) ==
    LET v == data[k]
        d1 == IF v.t = "list" THEN [data EXCEPT ![k] = Flatten(v)] ELSE data
        res == Parse(Sprint(v))
    IN  IF KindPanics(v) THEN [panic |-> TRUE, data |-> data]
        ELSE IF k \in CheckedUrlFields(fields) /\ res.ok
             THEN [panic |-> FALSE, data |-> SetDerived(d1, k, res)]
             ELSE [panic |-> FALSE, data |-> d1]

RECURSIVE RangeLoop(_, _, _)
\* main.go:156: the entries present when the loop starts are each produced once, in any
\* order; entries created during the loop are strings under new names, and visiting
\* them changes nothing
RangeLoop(data, todo, fields) ==
    IF todo = {} THEN {[panic |-> FALSE, data |-> data]}
    ELSE UNION { LET r == VisitKey(data, k, fields)
                 IN  IF r.panic THEN {r} ELSE RangeLoop(r.data, todo \ {k}, fields)
                 : k \in todo }

\* main.go:152-190: every way cleanData can end on this map
cleanData(data, fields) == RangeLoop(data, DOMAIN data, fields)

(***************************************************************************)
(* The sampler (dynsampler.EMASampleRate, main.go:26 and 62-65).           *)
(* GetSampleRate takes the sampler's lock, counts one arrival for the key  *)
(* and returns the key's saved rate; the saved rates are left open here:   *)
(* any value of SamplerRates may come back.                                *)
(***************************************************************************)
SamplerRates == {-1, 0, 1, 2}

NewSampler == [counts |-> [k \in {} |-> 0], recomputed |-> FALSE]

\* one more line under key k
CountKey(counts, k) ==
    IF k \in DOMAIN counts THEN [counts EXCEPT ![k] = @ + 1] ELSE (k :> 1) @@ counts

\* main.go:204: the arrival GetSampleRate records
GetSampleRate(s, key) == [s EXCEPT !.counts = CountKey(s.counts, key)]

\* a faulty variant of SampleKey: another field of the record leaks into the key
SampleKeyWithExtra(data, fields) ==
    JoinStrings([i \in 1..Len(fields) |->
                    IF fields[i] \in DOMAIN data THEN Sprint(data[fields[i]]) ELSE ""]
                \o (IF "x" \in DOMAIN data THEN <<Sprint(data["x"])>> ELSE <<>>),
                KeySeperatorChar)

\* main.go:196-202
SampleKey(data, fields) ==
    JoinStrings([i \in 1..Len(fields) |->
                    IF fields[i] \in DOMAIN data THEN Sprint(data[fields[i]]) ELSE ""],
                KeySeperatorChar)

\* a faulty variant of ClampRate: the guard is missing
ClampRateNone(rate) == rate

\* main.go:206-208
ClampRate(rate) == IF rate < 1 THEN 1 ELSE rate

\* rand.Intn(n): the values it can return; it panics when n <= 0
Intn(n) == IF n <= 0 THEN {} ELSE 0..(n - 1)

\* main.go:192-211: every way determineSampleRate can end on this record
determineSampleRate(data, fields) ==
    LET key == SampleKey(data, fields)
    IN  UNION { LET rate == ClampRate(raw)
                IN  IF Intn(rate) = {}
                    THEN {[key |-> key, raw |-> raw, rate |-> rate, draw |-> -1,
                           keep |-> FALSE, panic |-> TRUE]}
                    ELSE {[key |-> key, raw |-> raw, rate |-> rate, draw |-> d,
                           keep |-> (d = 0), panic |-> FALSE] : d \in Intn(rate)}
                : raw \in SamplerRates }

(***************************************************************************)
(* libhoney events (main.go:42 and 127-137).                               *)
(***************************************************************************)
NoEvent == [SampleRate |-> 0, fields |-> EmptyMap]

\* libhoney.NewEvent: the global field of main.go:42, sample rate 1
NewEvent == [SampleRate |-> 1, fields |-> ("event.parser" :> Str("http-honeylog/0.1"))]

\* ev.AddField
AddField(ev, name, v) == [ev EXCEPT !.fields = (name :> v) @@ ev.fields]

\* ev.Add(map): every entry of the map is set on the event
Add(ev, data) == [ev EXCEPT !.fields = data @@ ev.fields]

\* main.go:127-131: the event built for a kept record
BuildEvent(data, rate, key) ==
    Add(AddField([NewEvent EXCEPT !.SampleRate = rate], "event.samplekey", Str(key)), data)

(***************************************************************************)
(* Request bodies: a line is its length in bytes and what json.Unmarshal   *)
(* makes of it.                                                            *)
(***************************************************************************)
Line(len, ok, rec) == [len |-> len, ok |-> ok, rec |-> rec]

ReqRecords ==
    { ("user" :> Str("a")),
      ("user" :> Str("a")) @@ ("x" :> Null),
      ("user" :> Str("b")) @@ ("event.samplekey" :> Str("zz")),
      ("user" :> Str("a")) @@ ("u" :> Str("/x/1?y=2")) }

LineSet ==
    { Line(MaxLineLength - 1, TRUE, r) : r \in ReqRecords }
    \cup { Line(MaxLineLength - 1, FALSE, EmptyMap) }
    \cup { Line(l, TRUE, ("user" :> Str("a"))) : l \in {MaxLineLength, MaxLineLength + 1} }

Bodies == UNION { [1..n -> LineSet] : n \in 0..MaxLines }

\* main.go:105-107 and 111: bufio.Scanner with a buffer of MaxLineLength bytes and a
\* token limit of MaxLineLength fails with ErrTooLong when the buffer fills before
\* the line's newline is in it
TooLong(line) == line.len >= MaxLineLength

Handlers == 1..NumHandlers

IdleHandler ==
    [pc |-> "idle", body |-> <<>>, pos |-> 0, total |-> 0, success |-> 0, status |-> 0,
     data |-> EmptyMap, key |-> "", rate |-> 0, keep |-> FALSE,
     ev |-> NoEvent, sent |-> "none", panicIn |-> ""]

\* the per-line locals at the top of a loop iteration
NewIteration(h) ==
    [h EXCEPT !.pos = @ + 1, !.total = @ + 1, !.data = EmptyMap, !.key = "", !.rate = 0,
              !.keep = FALSE, !.ev = NoEvent, !.sent = "none"]

NoClean == [pc |-> "off", rec |-> EmptyMap, data |-> EmptyMap, todo |-> {}]
NoSamp == [calls |-> <<>>, last |-> [key |-> "", raw |-> 1, rate |-> 1, draw |-> 0,
                                     keep |-> TRUE, panic |-> FALSE]]

(***************************************************************************)
(* Spec: concurrent request handlers.                                      *)
(***************************************************************************)
Init ==
    /\ samplingFields = <<"user">>
    /\ urlFields = <<"u">>
    /\ sampler = NewSampler
    /\ handler = [h \in Handlers |-> IdleHandler]
    /\ decodedKeys = [k \in {} |-> 0]
    /\ clean = NoClean
    /\ samp = NoSamp

\* main.go:101-110: a request arrives and its handler starts
Request(h) ==
    /\ handler[h].pc = "idle"
    /\ \E b \in Bodies : handler' = [handler EXCEPT ![h] = [@ EXCEPT !.pc = "scan", !.body = b]]
    /\ UNCHANGED <<samplingFields, urlFields, sampler, decodedKeys, clean, samp>>

\* main.go:111, 147-149: Scan returns false at the end of the body
ScanEOF(h) ==
    /\ handler[h].pc = "scan"
    /\ handler[h].pos = Len(handler[h].body)
    /\ handler' = [handler EXCEPT ![h] = [@ EXCEPT !.pc = "done", !.status = 200]]
    /\ UNCHANGED <<samplingFields, urlFields, sampler, decodedKeys, clean, samp>>

\* main.go:111, 147-149: Scan returns false on a line that does not fit the buffer
\* (the scanner's error is never read), and the handler goes on to answer
ScanTooLong(h) ==
    /\ handler[h].pc = "scan"
    /\ handler[h].pos < Len(handler[h].body)
    /\ TooLong(handler[h].body[handler[h].pos + 1])
    /\ handler' = [handler EXCEPT ![h] = [@ EXCEPT !.pc = "done", !.status = 200]]
    /\ UNCHANGED <<samplingFields, urlFields, sampler, decodedKeys, clean, samp>>

\* main.go:112-120: json.Unmarshal fails, the line is counted and skipped
BadLine(h) ==
    /\ handler[h].pc = "scan"
    /\ handler[h].pos < Len(handler[h].body)
    /\ ~TooLong(handler[h].body[handler[h].pos + 1])
    /\ ~handler[h].body[handler[h].pos + 1].ok
    /\ handler' = [handler EXCEPT ![h] = NewIteration(@)]
    /\ UNCHANGED <<samplingFields, urlFields, sampler, decodedKeys, clean, samp>>

\* main.go:112-144: a decoded line goes through cleanData, determineSampleRate and,
\* when kept, to libhoney
ProcessLine(h) ==
    /\ handler[h].pc = "scan"
    /\ handler[h].pos < Len(handler[h].body)
    /\ ~TooLong(handler[h].body[handler[h].pos + 1])
    /\ handler[h].body[handler[h].pos + 1].ok
    /\ \E c \in cleanData(handler[h].body[handler[h].pos + 1].rec, urlFields) :
         LET it == [NewIteration(handler[h]) EXCEPT !.data = c.data]
         IN  /\ decodedKeys' = CountKey(decodedKeys, SampleKey(c.data, samplingFields))
             /\ IF c.panic
                THEN /\ handler' = [handler EXCEPT ![h] =
                                       [it EXCEPT !.pc = "panic", !.panicIn = "cleanData"]]
                     /\ UNCHANGED sampler
                ELSE \E o \in determineSampleRate(c.data, samplingFields) :
                       /\ sampler' = GetSampleRate(sampler, o.key)
                       /\ LET dr == [it EXCEPT !.key = o.key, !.rate = o.rate,
                                               !.keep = o.keep]
                          IN  IF o.panic
                              THEN handler' = [handler EXCEPT ![h] =
                                       [dr EXCEPT !.pc = "panic", !.panicIn = "Intn"]]
                              ELSE IF ~o.keep
                              THEN handler' = [handler EXCEPT ![h] = dr]
                              ELSE \E sent \in {"ok", "send_err"} :
                                     handler' = [handler EXCEPT ![h] =
                                       [dr EXCEPT !.ev = BuildEvent(c.data, o.rate, o.key),
                                                  !.sent = sent,
                                                  !.success = IF sent = "ok" THEN @ + 1 ELSE @]]
    /\ UNCHANGED <<samplingFields, urlFields, clean, samp>>

\* main.go:65: the sampler's timer recomputes the rates and resets the interval counters
Recompute ==
    /\ sampler' = [counts |-> [k \in {} |-> 0], recomputed |-> TRUE]
    /\ UNCHANGED <<samplingFields, urlFields, handler, decodedKeys, clean, samp>>

Next ==
    \/ \E h \in Handlers : Request(h)
    \/ \E h \in Handlers : ScanEOF(h)
    \/ \E h \in Handlers : ScanTooLong(h)
    \/ \E h \in Handlers : BadLine(h)
    \/ \E h \in Handlers : ProcessLine(h)
    \/ Recompute

Spec == Init /\ [][Next]_vars

(***************************************************************************)
(* SpecClean: one call of cleanData, one map entry per step.               *)
(***************************************************************************)
\* every map of at most max entries with names in names and values in values
Records(names, values, max) ==
    UNION { [S -> values] : S \in { T \in SUBSET names : Cardinality(T) <= max } }

CleanNames == {"u", "v", "u.path", "v.path"}

CleanValues ==
    { Str("/x/1?y=2"), Str("%zz"), Str("orig"), List(<<Str("a"), Str("b"), Str("c")>>),
      Null, Num(1), Bool(TRUE), Obj }

\* main.go:54: strings.Split never returns an empty list; an unset variable gives <<"">>
UrlConfigs == { <<"">>, <<"u">>, <<"u", "v">>, <<"v", "u">> }

InitClean ==
    /\ samplingFields = <<"user">>
    /\ urlFields \in UrlConfigs
    /\ sampler = NewSampler
    /\ handler = [h \in Handlers |-> IdleHandler]
    /\ decodedKeys = [k \in {} |-> 0]
    /\ \E r \in Records(CleanNames, CleanValues, MaxFields) :
         clean = [pc |-> "iter", rec |-> r, data |-> r, todo |-> DOMAIN r]
    /\ samp = NoSamp

\* main.go:156-189: the range loop produces one more entry
CleanVisit ==
    /\ clean.pc = "iter"
    /\ \E k \in clean.todo :
         LET r == VisitKey(clean.data, k, urlFields)
         IN  clean' = IF r.panic
                      THEN [clean EXCEPT !.pc = "panic"]
                      ELSE [clean EXCEPT !.data = r.data, !.todo = @ \ {k}]
    /\ UNCHANGED <<samplingFields, urlFields, sampler, handler, decodedKeys, samp>>

\* main.go:190: the loop is over and cleanData returns
CleanReturn ==
    /\ clean.pc = "iter"
    /\ clean.todo = {}
    /\ clean' = [clean EXCEPT !.pc = "returned"]
    /\ UNCHANGED <<samplingFields, urlFields, sampler, handler, decodedKeys, samp>>

NextClean ==
    \/ CleanVisit
    \/ CleanReturn

SpecClean == InitClean /\ [][NextClean]_vars

(***************************************************************************)
(* SpecSample: two successive calls of determineSampleRate.                *)
(***************************************************************************)
SampleNames == {"user", "u", "x"}

SampleValues == { Str("a"), Str(""), Num(1), Str("1") }

\* main.go:46-51: at least one sampling field is configured
SamplingConfigs == { <<"user">>, <<"user", "u">>, <<"u", "user">> }

InitSample ==
    /\ samplingFields \in SamplingConfigs
    /\ urlFields = <<"u">>
    /\ sampler = NewSampler
    /\ handler = [h \in Handlers |-> IdleHandler]
    /\ decodedKeys = [k \in {} |-> 0]
    /\ clean = NoClean
    /\ samp = NoSamp

\* main.go:192-211: determineSampleRate runs on one more record
Determine ==
    /\ Len(samp.calls) < 2
    /\ \E d \in Records(SampleNames, SampleValues, MaxFields) :
         \E o \in determineSampleRate(d, samplingFields) :
           /\ samp' = [calls |-> Append(samp.calls, [data |-> d, key |-> o.key]),
                       last |-> o]
           /\ sampler' = GetSampleRate(sampler, o.key)
    /\ UNCHANGED <<samplingFields, urlFields, handler, decodedKeys, clean>>

NextSample == Determine

SpecSample == InitSample /\ [][NextSample]_vars

(***************************************************************************)
(* The claims.                                                             *)
(***************************************************************************)
Finished(h) == handler[h].pc \in {"done", "panic"}

\* the lines of a body that fail JSON-object decoding
Malformed(body) == { i \in 1..Len(body) : ~body[i].ok }

\* C1: a line longer than MaxLineLength is rejected for that line only: when the
\* handler has answered, every line that follows an oversized line of its body has
\* been scanned, counted and processed.
C1_LaterLinesProcessed ==
    \A h \in Handlers :
        handler[h].pc = "done" =>
            \A j \in 1..Len(handler[h].body) :
                (\E i \in 1..(j - 1) : handler[h].body[i].len > MaxLineLength)
                    => j <= handler[h].pos

\* C2: a body of n lines, each within the maximum length, m of them malformed, ends
\* with total = n, success <= n - m and HTTP status 200.
C2_BatchCounted ==
    \A h \in Handlers :
        (Finished(h) /\ \A i \in 1..Len(handler[h].body) :
                            handler[h].body[i].len <= MaxLineLength)
            => /\ handler[h].total = Len(handler[h].body)
               /\ handler[h].success
                      <= Len(handler[h].body) - Cardinality(Malformed(handler[h].body))
               /\ handler[h].status = 200

\* C3: cleanData raises no error for any decoded record, so no request is aborted
\* in cleanData.
C3_CleanDataNeverRaises ==
    \A h \in Handlers : handler[h].panicIn # "cleanData"

\* the value a field of the record cleanData was given has when only list
\* flattening may have touched it
Kept(k) ==
    /\ k \in DOMAIN clean.rec
    /\ k \in DOMAIN clean.data
    /\ clean.data[k] \in {clean.rec[k], Flatten(clean.rec[k])}

\* C4: when cleanData has decomposed a configured URL field with a valid value,
\* every field that was already in the record keeps its value (a list apart, which
\* is flattened): no derived sub-field overwrites a field of the same name.
C4_NoOverwrite ==
    (/\ clean.pc = "returned"
     /\ urlFields[1] \in DOMAIN clean.rec
     /\ clean.rec[urlFields[1]] = Str("/x/1?y=2"))
        => \A k \in DOMAIN clean.rec : Kept(k)

\* C5: every event handed to the sink carries the rate computed for its record as
\* its sample rate and the sampling key used for the lookup as event.samplekey.
C5_EventCarriesRateAndKey ==
    \A h \in Handlers :
        handler[h].sent # "none" =>
            /\ handler[h].ev.SampleRate = handler[h].rate
            /\ "event.samplekey" \in DOMAIN handler[h].ev.fields
            /\ handler[h].ev.fields["event.samplekey"] = Str(handler[h].key)

\* C6: whatever integer the sampler returns, the rate used for the draw is >= 1 (a
\* value below 1 becomes 1, any other is kept), the draw is taken from [0, rate),
\* the record is kept exactly when the draw is 0, and a rate of 1 always keeps.
C6_RateClamped ==
    Len(samp.calls) > 0 =>
        /\ ~samp.last.panic
        /\ samp.last.rate >= 1
        /\ samp.last.rate = (IF samp.last.raw < 1 THEN 1 ELSE samp.last.raw)
        /\ samp.last.draw \in 0..(samp.last.rate - 1)
        /\ samp.last.keep <=> (samp.last.draw = 0)
        /\ samp.last.rate = 1 => samp.last.keep

\* a sampler answer below 1 has been clamped and the record kept
C6_Witness ==
    /\ Len(samp.calls) > 0
    /\ samp.last.raw < 1
    /\ samp.last.rate = 1
    /\ samp.last.keep

\* two records agree on every configured sampling field: the same value, or absent
\* in both
AgreeOnFields(d1, d2) ==
    \A i \in 1..Len(samplingFields) :
        LET f == samplingFields[i]
        IN  /\ (f \in DOMAIN d1) <=> (f \in DOMAIN d2)
            /\ f \in DOMAIN d1 => d1[f] = d2[f]

\* C7: the sampling key is the %v of each configured field in configured order, the
\* empty string for an absent field, joined by the separator; two records that agree
\* on the configured fields get the same key whatever their other fields are.
C7_KeyFromConfiguredFields ==
    /\ \A c \in DOMAIN samp.calls :
          samp.calls[c].key =
              JoinStrings([i \in 1..Len(samplingFields) |->
                              IF samplingFields[i] \in DOMAIN samp.calls[c].data
                              THEN Sprint(samp.calls[c].data[samplingFields[i]])
                              ELSE ""], KeySeperatorChar)
    /\ \A c1, c2 \in DOMAIN samp.calls :
          AgreeOnFields(samp.calls[c1].data, samp.calls[c2].data)
              => samp.calls[c1].key = samp.calls[c2].key

\* two different records that agree on two configured fields, one of them absent
C7_Witness ==
    /\ Len(samp.calls) = 2
    /\ Len(samplingFields) = 2
    /\ samp.calls[1].data # samp.calls[2].data
    /\ AgreeOnFields(samp.calls[1].data, samp.calls[2].data)
    /\ \E i \in 1..2 : samplingFields[i] \notin DOMAIN samp.calls[1].data
    /\ \E i \in 1..2 : samplingFields[i] \in DOMAIN samp.calls[1].data
    /\ samp.calls[1].key = samp.calls[2].key

\* C8: when cleanData has ended, every list-valued field of the record holds the
\* comma-joined string of its elements, and every other field that is not a
\* configured URL field holds the value it had.
C8_ListsFlattenedRestUnchanged ==
    clean.pc \in {"returned", "panic"} =>
        \A k \in DOMAIN clean.rec :
            IF clean.rec[k].t = "list"
            THEN clean.data[k] =
                     Str(JoinStrings([i \in 1..Len(clean.rec[k].e) |->
                                         Sprint(clean.rec[k].e[i])], ","))
            ELSE (\A i \in 1..Len(urlFields) : urlFields[i] # k)
                     => clean.data[k] = clean.rec[k]

\* C9: once every handler has finished, with no recomputation in between, each
\* key's interval counter is the number of decoded lines with that key.
C9_EveryDecodedLineCounted ==
    ((\A h \in Handlers : Finished(h)) /\ ~sampler.recomputed)
        => sampler.counts = decodedKeys

\* the names cleanData derives from URL field k
DerivedNames(k) ==
    { k \o sfx : sfx \in {".path", ".pathShape", ".query", ".queryShape", ".uri",
                          ".queryFields.y"} }

====
